---- MODULE Spec2Model ----
(***************************************************************************)
(* A model of the Pratt parser of src/src/test.ts (class Parser, class     *)
(* ParserBuilder, createStop) together with the grammars of its test       *)
(* suite (src/test/index.ts).                                              *)
(*                                                                         *)
(* Execution is single threaded and recursive: the call stack is explicit  *)
(* (variable stack), a frame per running parse() call and per running      *)
(* nud/led handler.  An exception unwinds the whole stack, no handler of   *)
(* the source catches.  The lexer is an external collaborator: the token   *)
(* stream is revealed token by token as the parser peeks at it.            *)
(***************************************************************************)
EXTENDS Integers, Sequences, FiniteSets, TLC

VARIABLES
    _bps,        \* Parser._bps : token type -> binding power
    _nuds,       \* Parser._nuds: token type -> prefix handler
    _leds,       \* Parser._leds: token type -> infix handler
    built,       \* the grammar session that parser.build(...) has run ("" = none)
    lexTypes,    \* the token types the lexer of the running test program defines
    source,      \* the token types of the input, as far as the lexer has read them
    closed,      \* the lexer has met the end of the input
    position,    \* index in source of the next token
    stack,       \* call stack, top last
    stopCalled,  \* one flag per closure made by createStop
    stopArg,     \* per closure, the argument of the last stop(x) call (history)
    callerOpts,  \* an options object the host keeps and passes again
    result,      \* how the last finished top-level call ended
    calls,       \* number of top-level parse() calls made
    callOpts,    \* the options the host passed to its last parse() call
    bpResult,    \* the last host call of parser.bp(x): argument and value
    resolverValue, \* the number the host's BPResolver function returns now
    resolverCalls, \* how often the BPResolver function has been invoked
    listRun,     \* the running or finished parseList call and what it called
    history      \* every ParserBuilder call made on the parser, in order

vars == <<_bps, _nuds, _leds, built, lexTypes, source, closed, position, stack,
          stopCalled, stopArg, callerOpts, result, calls, callOpts, bpResult,
          resolverValue, resolverCalls, listRun, history>>

-----------------------------------------------------------------------------
(* Bounds of the model *)

MaxLen == 5      \* longest input, in tokens
MaxBP == 2       \* binding powers of the operators of a session are 1..MaxBP
MaxCalls == 2    \* top-level parse() calls on one input
MaxQueries == 3  \* invocations of the BPResolver function
MaxRegs == 2     \* ParserBuilder calls made one by one
MaxItems == 3    \* items of a list parseList reads

-----------------------------------------------------------------------------
(* Values *)

\* null / undefined
Null == <<"null">>
\* parseInt(token.match)
NumV(match) == <<"num", match>>
\* what a create / combine callback builds from its arguments
Node(left, op, right) == <<"node", op, left, right>>
\* what the create callback of unary() builds from its arguments
Prefix(op, target) == <<"prefix", op, target>>
\* the number 0 of (left || 0)
Zero == <<"zero">>

\* Number.NEGATIVE_INFINITY, Number.POSITIVE_INFINITY and the finite numbers
NEGATIVE_INFINITY == [inf |-> -1, n |-> 0]
POSITIVE_INFINITY == [inf |-> 1, n |-> 0]
Fin(n) == [inf |-> 0, n |-> n]
\* a < b on numbers
Lt(a, b) == \/ a.inf < b.inf
            \/ a.inf = 0 /\ b.inf = 0 /\ a.n < b.n

\* the null key of a table, and the type of the end-of-input token
NullKey == "<null>"

\* entries of a terminals list: a number, a token type
Num(n) == <<"number", n>>
Ty(t) == <<"string", t>>
\* an entry that is neither (typeof is neither 'number' nor 'string')
Other == <<"object", "">>

-----------------------------------------------------------------------------
(* The lexer *)

\* IToken: type, match, strpos().start, isEof()
Token(ty, i) ==
    [type |-> ty, match |-> <<ty, i>>, start |-> i, eof |-> ty = NullKey]

\* the types the token at position may have
Avail ==
    IF position <= Len(source) THEN {source[position]}
    ELSE IF closed \/ Len(source) >= MaxLen THEN {NullKey}
    ELSE lexTypes \cup {NullKey}

\* the lexer has read a token of type ty at position
Read(ty) ==
    /\ source' = IF position > Len(source) /\ ty # NullKey
                 THEN Append(source, ty) ELSE source
    /\ closed' = (closed \/ ty = NullKey)

\* ILexer.next(): at the end of the input the position stays
nextPosition(ty) == IF ty = NullKey THEN position ELSE position + 1

-----------------------------------------------------------------------------
(* Parser.bp *)

\* arguments of bp: null, a token type, a token
NullArg == [tag |-> "null", type |-> NullKey, eof |-> FALSE]
TypeArg(t) == [tag |-> "type", type |-> t, eof |-> FALSE]
TokenArg(tok) == [tag |-> "token", type |-> tok.type, eof |-> tok.eof]

_type(tokenOrType) == tokenOrType.type

\* bp without the end-of-input test (mutant)
bp_noEof(tokenOrType) ==
    IF tokenOrType.tag = "null" THEN NEGATIVE_INFINITY
    ELSE IF _type(tokenOrType) \in DOMAIN _bps
         THEN IF _bps[_type(tokenOrType)].dyn THEN Fin(resolverValue)
              ELSE Fin(_bps[_type(tokenOrType)].n)
         ELSE POSITIVE_INFINITY

\* bp answering from the table entry without calling the resolver (mutant)
bp_stored(tokenOrType) ==
    IF tokenOrType.tag = "null" THEN NEGATIVE_INFINITY
    ELSE IF tokenOrType.tag = "token" /\ tokenOrType.eof THEN NEGATIVE_INFINITY
    ELSE IF _type(tokenOrType) \in DOMAIN _bps
         THEN Fin(_bps[_type(tokenOrType)].n)
         ELSE POSITIVE_INFINITY

\* bp taking a type without entry for one that never binds (mutant)
bp_missingLow(tokenOrType) ==
    IF tokenOrType.tag = "null" THEN NEGATIVE_INFINITY
    ELSE IF tokenOrType.tag = "token" /\ tokenOrType.eof THEN NEGATIVE_INFINITY
    ELSE IF _type(tokenOrType) \in DOMAIN _bps
         THEN IF _bps[_type(tokenOrType)].dyn THEN Fin(resolverValue)
              ELSE Fin(_bps[_type(tokenOrType)].n)
         ELSE NEGATIVE_INFINITY

\* a table entry is a number n (dyn false) or a BPResolver function (dyn
\* true), which bp calls: typeof bp == 'function' ? bp() : bp
bp(tokenOrType) ==
    IF tokenOrType.tag = "null" THEN NEGATIVE_INFINITY
    ELSE IF tokenOrType.tag = "token" /\ tokenOrType.eof THEN NEGATIVE_INFINITY
    ELSE IF _type(tokenOrType) \in DOMAIN _bps
         THEN IF _bps[_type(tokenOrType)].dyn THEN Fin(resolverValue)
              ELSE Fin(_bps[_type(tokenOrType)].n)
         ELSE POSITIVE_INFINITY

\* the number of resolver invocations bp(tokenOrType) makes: bp() on the
\* last line of bp, reached when neither early return is taken
bpInvocations(tokenOrType) ==
    IF tokenOrType.tag = "null" THEN 0
    ELSE IF tokenOrType.tag = "token" /\ tokenOrType.eof THEN 0
    ELSE IF _type(tokenOrType) \in DOMAIN _bps /\ _bps[_type(tokenOrType)].dyn
         THEN 1
         ELSE 0

-----------------------------------------------------------------------------
(* createStop *)

\* the closure createStop() returns is the next free index of stopCalled
createStop == Len(stopCalled) + 1

\* an isStopped that never reports the trigger (mutant)
isStopped_never(stop) == FALSE

isStopped(stop) == stopCalled[stop]

-----------------------------------------------------------------------------
(* Parser.parse: options, check, mkinfo *)

\* ParseOpts: terminals (nullTerminals: the field is null or absent), stop
\* (0: absent)
Opts(terminals, stop) ==
    [terminals |-> terminals, nullTerminals |-> FALSE, stop |-> stop]
NullTerminalsOpts == [terminals |-> <<>>, nullTerminals |-> TRUE, stop |-> 0]
\* the default of the parameter opts
DefaultOpts == Opts(<<Num(0)>>, 0)

\* opts.stop || createStop()
optsStop(opts) == IF opts.stop # 0 THEN opts.stop ELSE createStop

\* the normalisation without the push on the empty list (mutant)
optsTerminals_noPush(opts) ==
    IF opts.nullTerminals THEN <<Num(0)>>
    ELSE opts.terminals

\* if (!opts.terminals) opts.terminals = [0]
\* if (opts.terminals.length == 0) opts.terminals.push(0)
optsTerminals(opts) ==
    IF opts.nullTerminals THEN <<Num(0)>>
    ELSE IF Len(opts.terminals) = 0 THEN Append(opts.terminals, Num(0))
    ELSE opts.terminals

\* the callback handing the accumulator on at an entry of neither kind
\* (mutant)
reduceStep_permissive(canContinue, rbpOrType, t, bpv) ==
    IF canContinue # "true" THEN "false"
    ELSE IF rbpOrType[1] = "number"
         THEN IF Lt(Fin(rbpOrType[2]), bpv) THEN "true" ELSE "false"
    ELSE IF rbpOrType[1] = "string"
         THEN IF t.type # rbpOrType[2] THEN "true" ELSE "false"
    ELSE canContinue

\* the callback with <= for < (mutant)
reduceStep_le(canContinue, rbpOrType, t, bpv) ==
    IF canContinue # "true" THEN "false"
    ELSE IF rbpOrType[1] = "number"
         THEN IF ~Lt(bpv, Fin(rbpOrType[2])) THEN "true" ELSE "false"
    ELSE IF rbpOrType[1] = "string"
         THEN IF t.type # rbpOrType[2] THEN "true" ELSE "false"
    ELSE "undefined"

\* the callback of opts.terminals.reduce; "undefined" when no branch returns
reduceStep(canContinue, rbpOrType, t, bpv) ==
    IF canContinue # "true" THEN "false"
    ELSE IF rbpOrType[1] = "number"
         THEN IF Lt(Fin(rbpOrType[2]), bpv) THEN "true" ELSE "false"
    ELSE IF rbpOrType[1] = "string"
         THEN IF t.type # rbpOrType[2] THEN "true" ELSE "false"
    ELSE "undefined"

RECURSIVE reduce(_, _, _, _, _)
reduce(terminals, i, canContinue, t, bpv) ==
    IF i > Len(terminals) THEN canContinue
    ELSE reduce(terminals, i + 1,
                reduceStep(canContinue, terminals[i], t, bpv), t, bpv)

\* check(), t the token lexer.peek() returns (not peeked at when stopped)
check(frame, t) ==
    IF isStopped(frame.stop) THEN FALSE
    ELSE reduce(frame.terminals, 1, "true", t, bp(TokenArg(t))) = "true"

\* mkinfo(token), and Object.assign(mkinfo(operator), {left})
mkinfo(token, stop, left) ==
    [token |-> token, bp |-> bp(TokenArg(token)), stop |-> stop, left |-> left]

-----------------------------------------------------------------------------
(* The call stack *)

ParseFrame(opts) ==
    [k |-> "parse", pc |-> "nud", terminals |-> optsTerminals(opts),
     stop |-> optsStop(opts), left |-> Null]

HandlerFrame(fn, info) ==
    [k |-> "handler", pc |-> "start", fn |-> fn, inf |-> info, right |-> Null]

Top == stack[Len(stack)]
Pop(stk) == SubSeq(stk, 1, Len(stk) - 1)
SetTop(stk, f) == [stk EXCEPT ![Len(stk)] = f]

\* the value v reaches the frame that waits on top of stk: a parse call
\* assigns it to left, a handler to the variable that holds its sub-parse
Deliver(stk, v) ==
    IF stk = <<>>
    THEN /\ stack' = <<>>
         /\ result' = [st |-> "returned", v |-> v]
    ELSE /\ result' = result
         /\ LET f == stk[Len(stk)] IN
            stack' = IF f.k = "parse"
                     THEN SetTop(stk, [f EXCEPT !.left = v, !.pc = "loop"])
                     ELSE SetTop(stk, [f EXCEPT !.right = v, !.pc = "ret"])

\* the running function returns v
Return(v) == Deliver(Pop(stack), v)

\* the running function throws e: the stack unwinds to the host
Throw(e) ==
    /\ stack' = <<>>
    /\ result' = [st |-> "threw", v |-> e]

\* new Error(`Unexpected token: ${match} (at ${start.line}:${start.column})`)
UnexpectedToken(token) == <<"Unexpected token", token.match, token.start>>
\* reading a property of null or undefined
TypeError == <<"TypeError">>
\* lexer.expect(type) on another token
LexerError == <<"LexerError">>

\* a frame calls parse(opts): its own frame waits, the new call's frame is
\* on top; createStop() ran when opts had no stop
Call(waiting, opts) ==
    /\ stack' = Append(SetTop(stack, waiting), ParseFrame(opts))
    /\ stopCalled' = IF opts.stop # 0 THEN stopCalled
                     ELSE Append(stopCalled, FALSE)
    /\ stopArg' = IF opts.stop # 0 THEN stopArg ELSE Append(stopArg, Null)

-----------------------------------------------------------------------------
(* Parser.nud, Parser.led *)

\* what a dispatch does: invoke the handler on info, or throw
nud(info) ==
    IF info.token.type \in DOMAIN _nuds
    THEN [throws |-> FALSE, frame |-> HandlerFrame(_nuds[info.token.type], info)]
    ELSE [throws |-> TRUE, error |-> UnexpectedToken(info.token)]

\* led falling back to the prefix handler of the type (mutant)
led_fallback(info) ==
    IF info.token.type \in DOMAIN _leds
    THEN [throws |-> FALSE, frame |-> HandlerFrame(_leds[info.token.type], info)]
    ELSE IF info.token.type \in DOMAIN _nuds
    THEN [throws |-> FALSE, frame |-> HandlerFrame(_nuds[info.token.type], info)]
    ELSE [throws |-> TRUE, error |-> UnexpectedToken(info.token)]

led(info) ==
    IF info.token.type \in DOMAIN _leds
    THEN [throws |-> FALSE, frame |-> HandlerFrame(_leds[info.token.type], info)]
    ELSE [throws |-> TRUE, error |-> UnexpectedToken(info.token)]

\* the parse call on top dispatched: it waits for the handler, or unwinds
Dispatch(d) ==
    IF d.throws THEN Throw(d.error)
    ELSE /\ stack' = Append(SetTop(stack, [Top EXCEPT !.pc = "wait"]), d.frame)
         /\ result' = result

-----------------------------------------------------------------------------
(* Handlers: what the tables hold *)

\* a handler: which function it is (h); for the closures ParserBuilder
\* makes, the op and bp they close over and rightAssociative (ra); wrap: the
\* closure either() registers as nud around the handler
Fn(h) == [h |-> h, op |-> "", bp |-> 0, ra |-> FALSE, wrap |-> FALSE]

-----------------------------------------------------------------------------
(* ParserBuilder, on the tables T = [bps, nuds, leds] of its parser *)

\* a set that keeps the entry a key already has (mutant)
Put_first(map, key, value) ==
    [x \in DOMAIN map \cup {key} |->
        IF x = key /\ key \notin DOMAIN map THEN value ELSE map[x]]

\* Map.set
Put(map, key, value) ==
    [x \in DOMAIN map \cup {key} |-> IF x = key THEN value ELSE map[x]]

\* a bp that starts the bp table afresh (mutant)
define_bp_reset(T, tokenType, n) ==
    [T EXCEPT !.bps = Put(<<>>, tokenType, [dyn |-> FALSE, n |-> n])]

define_bp(T, tokenType, n) ==
    [T EXCEPT !.bps = Put(@, tokenType, [dyn |-> FALSE, n |-> n])]

\* ParserBuilder.bp with a BPResolver function as bp
define_bp_resolver(T, tokenType) ==
    [T EXCEPT !.bps = Put(@, tokenType, [dyn |-> TRUE, n |-> 0])]

define_nud(T, tokenType, n, fn) ==
    define_bp([T EXCEPT !.nuds = Put(@, tokenType, fn)], tokenType, n)

define_led(T, tokenType, n, fn) ==
    define_bp([T EXCEPT !.leds = Put(@, tokenType, fn)], tokenType, n)

\* either registering the prefix rule alone (mutant)
define_either_nudOnly(T, tokenType, n, fn) ==
    define_nud(T, tokenType, n, [fn EXCEPT !.wrap = TRUE])

define_either(T, tokenType, n, fn) ==
    define_led(define_nud(T, tokenType, n, [fn EXCEPT !.wrap = TRUE]),
               tokenType, n, fn)

define__binary(T, op, n, rightAssociative) ==
    define_led(T, op, n,
               [Fn("binary") EXCEPT !.op = op, !.bp = n, !.ra = rightAssociative])

define_binary(T, op, n) == define__binary(T, op, n, FALSE)

define_rassoc(T, op, n) == define__binary(T, op, n, TRUE)

\* unary(): the nud handler closes over op and create (its terminal is
\* inf.bp, not the parameter bp)
define_unary(T, op, n) ==
    define_nud(T, op, n, [Fn("unary") EXCEPT !.op = op, !.bp = n])

\* one call of a builder method, as a session lists it
BCall(m, tokenType, n, fn) == [m |-> m, type |-> tokenType, bp |-> n, fn |-> fn]

define(T, c) ==
    CASE c.m = "bp" -> define_bp(T, c.type, c.bp)
      [] c.m = "bp_resolver" -> define_bp_resolver(T, c.type)
      [] c.m = "nud" -> define_nud(T, c.type, c.bp, c.fn)
      [] c.m = "led" -> define_led(T, c.type, c.bp, c.fn)
      [] c.m = "either" -> define_either(T, c.type, c.bp, c.fn)
      [] c.m = "binary" -> define_binary(T, c.type, c.bp)
      [] c.m = "rassoc" -> define_rassoc(T, c.type, c.bp)
      [] c.m = "unary" -> define_unary(T, c.type, c.bp)

\* Parser.build(builder): the builder callback makes its calls in order
RECURSIVE build(_, _, _)
build(T, session, i) ==
    IF i > Len(session) THEN T
    ELSE build(define(T, session[i]), session, i + 1)

-----------------------------------------------------------------------------
(* The test programs: a lexer definition and a grammar session *)

\* binding power of the operand tokens (test 'Helpers')
OperandBP == 5
\* binding power registered for the end of the input
EofBP == -1

BPs == 1..MaxBP

\* the grammar of test 'Helpers' with operators a, b at binding powers pa,
\* pb; b through binary or rassoc; NIL an operand whose handler returns null;
\* a binding power for the end of the input as in the calculator grammar
HelpersSession(pa, pb, mb) ==
    [name |-> <<"helpers", pa, pb, mb>>,
     types |-> {"NUM", "NIL", "a", "b"},
     calls |-> << BCall("bp", NullKey, EofBP, Fn("")),
                  BCall("nud", "NUM", OperandBP, Fn("num")),
                  BCall("nud", "NIL", OperandBP, Fn("nil")),
                  BCall("binary", "a", pa, Fn("")),
                  BCall(mb, "b", pb, Fn("")) >>]

\* the calculator grammar's ';' (a handler that calls stop) beside an
\* operator a whose handler hands its stop on (binary) and an operator b
\* whose handler does not (the calculator's '+')
StopSession(pa, pb, ps) ==
    [name |-> <<"stop", pa, pb, ps>>,
     types |-> {"NUM", "a", "b", ";"},
     calls |-> << BCall("bp", NullKey, EofBP, Fn("")),
                  BCall("either", ";", ps, Fn("stop")),
                  BCall("nud", "NUM", OperandBP, Fn("num")),
                  BCall("binary", "a", pa, Fn("")),
                  BCall("led", "b", pb, Fn("infix")) >>]

\* the calculator grammar of the test suite (define.bp('EOF', -1) ... )
CalcSession ==
    [name |-> <<"calc">>,
     types |-> {"NUM", ";", "+", "-", "*", "/", "^", "(", ")"},
     calls |-> << BCall("bp", "EOF", -1, Fn("")),
                  BCall("either", ";", 1, Fn("stop")),
                  BCall("nud", "NUM", 100, Fn("num")),
                  BCall("nud", "(", 10, Fn("paren")),
                  BCall("bp", ")", 0, Fn("")),
                  BCall("led", "^", 20, Fn("pow")),
                  BCall("led", "+", 30, Fn("infix")),
                  BCall("either", "-", 30, Fn("minus")),
                  BCall("led", "*", 40, Fn("infix")),
                  BCall("led", "/", 40, Fn("infix")) >>]

\* the '-' of test 'Helpers', registered through binary() at binding power
\* pb and through unary() at binding power pu, unary last as in the test or
\* first
UnarySession(pb, pu, unaryLast) ==
    [name |-> <<"unary", pb, pu, unaryLast>>,
     types |-> {"NUM", "-"},
     calls |-> << BCall("bp", NullKey, EofBP, Fn("")),
                  BCall("nud", "NUM", OperandBP, Fn("num")) >>
               \o (IF unaryLast
                    THEN << BCall("binary", "-", pb, Fn("")),
                            BCall("unary", "-", pu, Fn("")) >>
                    ELSE << BCall("unary", "-", pu, Fn("")),
                            BCall("binary", "-", pb, Fn("")) >>)]

UnarySessions ==
    {UnarySession(pb, pu, ul) : pb \in BPs, pu \in BPs, ul \in BOOLEAN}

\* the calculator's ';' (a handler that calls stop) beside the operand and
\* the unary() '-' of test 'Helpers', whose handler hands its stop on
StopUnarySession ==
    [name |-> <<"stopunary">>,
     types |-> {"NUM", "-", ";"},
     calls |-> << BCall("bp", NullKey, EofBP, Fn("")),
                  BCall("either", ";", 1, Fn("stop")),
                  BCall("nud", "NUM", OperandBP, Fn("num")),
                  BCall("unary", "-", 2, Fn("")) >>]

\* the operands and one binary() operator of test 'Helpers', and the ',' of
\* its lexer, which has no rule
TermSession ==
    [name |-> <<"term">>,
     types |-> {"NUM", "a", ","},
     calls |-> << BCall("nud", "NUM", OperandBP, Fn("num")),
                  BCall("binary", "a", 1, Fn("")) >>]

\* that grammar with an infix rule for the type of the end-of-input token
\* (the null key, as in .bp(null, -1) // EOF), its handler one that returns
\* without recursing
EofLedSession ==
    [name |-> <<"eofled">>,
     types |-> {"NUM", "a", ","},
     calls |-> TermSession.calls
               \o << BCall("led", NullKey, EofBP, Fn("num")) >>]

\* terminals lists of token types only (parseItem of test 'Helpers':
\* terminals: [',', ']']), and lists with an entry of neither kind, alone,
\* first and last
TermOpts ==
    { Opts(<<Ty(",")>>, 0), Opts(<<Ty(","), Ty("]")>>, 0),
      Opts(<<Other>>, 0), Opts(<<Other, Num(0)>>, 0), Opts(<<Num(0), Other>>, 0),
      Opts(<<Ty(","), Other>>, 0), DefaultOpts }

\* the calculator's NUM and '+' before test 'BPResolver' gives NUM a
\* resolver as binding power
DynSession ==
    [name |-> <<"dyn">>,
     types |-> {"NUM", "+"},
     calls |-> << BCall("bp", NullKey, EofBP, Fn("")),
                  BCall("nud", "NUM", 100, Fn("num")),
                  BCall("led", "+", 30, Fn("infix")) >>]

\* the later builder calls of that program: the resolver for NUM (test
\* 'BPResolver'), and a number for NUM again
DynCalls ==
    { BCall("bp_resolver", "NUM", 0, Fn("")),
      BCall("bp", "NUM", OperandBP, Fn("")) }

\* the bp queries of that program: the type NUM, a NUM token, a token of
\* type NUM at the end of the input
DynBpArgs ==
    {TypeArg("NUM"), [tag |-> "token", type |-> "NUM", eof |-> FALSE],
     [tag |-> "token", type |-> "NUM", eof |-> TRUE]}

\* the calls of every builder method on two token types, at two binding
\* powers
BuilderCalls ==
    LET types == {"NUM", "-"} IN
    {BCall("bp_resolver", t, 0, Fn("")) : t \in types}
    \cup {BCall("bp", t, n, Fn("")) : t \in types, n \in {1, 2}}
    \cup {BCall("nud", t, n, Fn("num")) : t \in types, n \in {1, 2}}
    \cup {BCall("led", t, n, Fn("infix")) : t \in types, n \in {1, 2}}
    \cup {BCall("either", t, n, Fn("minus")) : t \in types, n \in {1, 2}}
    \cup {BCall(m, t, n, Fn("")) :
             m \in {"unary", "binary", "rassoc"}, t \in types, n \in {1, 2}}

\* what the resolver may return: sinon.spy(() => 100), and a value that
\* does not exceed the default terminal
ResolverValues == {0, 100}

Sessions ==
    {HelpersSession(pa, pb, mb) : pa \in BPs, pb \in BPs, mb \in {"binary", "rassoc"}}
    \cup {StopSession(pa, pb, ps) : pa \in BPs, pb \in BPs, ps \in BPs}

\* the terminals lists the host passes (test 'parser.parse({terminals: [...]})')
HostOpts ==
    {DefaultOpts, NullTerminalsOpts, Opts(<<>>, 0), Opts(<<Ty("NUM"), Num(0)>>, 0)}

\* no parseList call has been made
NoList == [pc |-> "none", items |-> <<>>, trace |-> <<>>]

-----------------------------------------------------------------------------
(* Initial state: a parser just constructed *)

Init ==
    /\ _bps = <<>>
    /\ _nuds = <<>>
    /\ _leds = <<>>
    /\ built = <<>>
    /\ lexTypes = {}
    /\ source = <<>>
    /\ closed = FALSE
    /\ position = 1
    /\ stack = <<>>
    /\ stopCalled = <<>>
    /\ stopArg = <<>>
    /\ callerOpts = DefaultOpts
    /\ result = [st |-> "none", v |-> Null]
    /\ calls = 0
    /\ callOpts = DefaultOpts
    /\ bpResult = [called |-> FALSE, arg |-> NullArg, value |-> NEGATIVE_INFINITY]
    /\ resolverValue = 100
    /\ resolverCalls = 0
    /\ listRun = NoList
    /\ history = <<>>

lexerVars == <<source, closed, position>>
tableVars == <<_bps, _nuds, _leds, built, lexTypes>>
stopVars == <<stopCalled, stopArg>>
hostVars == <<calls, callOpts, bpResult>>
sideVars == <<resolverValue, listRun, history>>

-----------------------------------------------------------------------------
(* Host steps *)

\* parser.build(define => ...) of one test program
Build(session) ==
    /\ built = <<>>
    /\ LET T == build([bps |-> _bps, nuds |-> _nuds, leds |-> _leds],
                      session.calls, 1)
       IN /\ _bps' = T.bps
          /\ _nuds' = T.nuds
          /\ _leds' = T.leds
    /\ built' = session.name
    /\ lexTypes' = session.types
    /\ history' = history \o session.calls
    /\ UNCHANGED <<lexerVars, stack, stopVars, callerOpts, result, hostVars>>
    /\ UNCHANGED <<resolverValue, resolverCalls, listRun>>

\* the host calls parser.parse(opts) with a new options object, or without
\* argument
parse_fresh(opts) ==
    /\ built # <<>> /\ stack = <<>> /\ calls < MaxCalls
    /\ calls' = calls + 1
    /\ callOpts' = opts
    /\ stack' = <<ParseFrame(opts)>>
    /\ stopCalled' = Append(stopCalled, FALSE)
    /\ stopArg' = Append(stopArg, Null)
    /\ result' = [st |-> "running", v |-> Null]
    /\ UNCHANGED <<tableVars, lexerVars, callerOpts, bpResult>>
    /\ UNCHANGED <<resolverCalls, sideVars>>

\* the host makes one ParserBuilder call c in a later parser.build(...)
builder_call(c) ==
    /\ stack = <<>>
    /\ Len(history) < (IF built = <<>> THEN 0 ELSE Len(DynSession.calls)) + MaxRegs
    /\ LET T == define([bps |-> _bps, nuds |-> _nuds, leds |-> _leds], c)
       IN /\ _bps' = T.bps
          /\ _nuds' = T.nuds
          /\ _leds' = T.leds
    /\ history' = Append(history, c)
    /\ UNCHANGED <<built, lexTypes, lexerVars, stack, stopVars, callerOpts,
                   result, hostVars, resolverValue, resolverCalls, listRun>>

\* the state the resolver function reads changes: it returns v from now on
resolver_change(v) ==
    /\ stack = <<>> /\ v # resolverValue
    /\ resolverValue' = v
    /\ UNCHANGED <<tableVars, lexerVars, stack, stopVars, callerOpts, result,
                   hostVars, resolverCalls, listRun, history>>

\* the host calls parser.bp(x) on a parser it has built
bp_query(x) ==
    /\ built # <<>> /\ stack = <<>> /\ calls = 0
    /\ resolverCalls + bpInvocations(x) <= MaxQueries
    /\ bpResult' = [called |-> TRUE, arg |-> x, value |-> bp(x)]
    /\ resolverCalls' = resolverCalls + bpInvocations(x)
    /\ UNCHANGED <<tableVars, lexerVars, stack, stopVars, callerOpts, result,
                   calls, callOpts, sideVars>>

\* the host calls parser.parse(callerOpts) with the options object it keeps:
\* parse assigns opts.stop and opts.terminals
parse_kept ==
    /\ built # <<>> /\ stack = <<>> /\ calls < MaxCalls
    /\ calls' = calls + 1
    /\ callOpts' = callerOpts
    /\ stack' = <<ParseFrame(callerOpts)>>
    /\ stopCalled' = IF callerOpts.stop # 0 THEN stopCalled
                     ELSE Append(stopCalled, FALSE)
    /\ stopArg' = IF callerOpts.stop # 0 THEN stopArg ELSE Append(stopArg, Null)
    /\ callerOpts' = Opts(optsTerminals(callerOpts), optsStop(callerOpts))
    /\ result' = [st |-> "running", v |-> Null]
    /\ UNCHANGED <<tableVars, lexerVars, bpResult>>
    /\ UNCHANGED <<resolverCalls, sideVars>>

\* the arguments the host passes to parser.bp: null, a type, a token
BpArgs ==
    LET types == lexTypes \cup {"DOES_NOT_EXIST"} IN
    {NullArg} \cup {TypeArg(t) : t \in types}
    \cup {[tag |-> "token", type |-> t, eof |-> e] :
             t \in types \cup {NullKey}, e \in BOOLEAN}

-----------------------------------------------------------------------------
(* Parser.parse *)

\* let left = this.nud(mkinfo(this.lexer.next()))
parse_nud ==
    /\ stack # <<>> /\ Top.k = "parse" /\ Top.pc = "nud"
    /\ \E ty \in Avail :
          /\ Read(ty)
          /\ position' = nextPosition(ty)
          /\ Dispatch(nud(mkinfo(Token(ty, position), Top.stop, Null)))
          /\ resolverCalls' =
                resolverCalls + bpInvocations(TokenArg(Token(ty, position)))
    /\ UNCHANGED <<tableVars, stopVars, callerOpts, hostVars, sideVars>>

\* while (check()) { operator = next(); left = this.led(...) } return left
parse_loop ==
    /\ stack # <<>> /\ Top.k = "parse" /\ Top.pc = "loop"
    /\ IF isStopped(Top.stop)
       THEN /\ Return(Top.left)
            /\ UNCHANGED <<lexerVars, resolverCalls>>
       ELSE \E ty \in Avail :
               /\ Read(ty)
               /\ IF check(Top, Token(ty, position))
                  THEN /\ position' = nextPosition(ty)
                       /\ Dispatch(led(mkinfo(Token(ty, position), Top.stop,
                                              Top.left)))
                       /\ resolverCalls' = resolverCalls
                             + 2 * bpInvocations(TokenArg(Token(ty, position)))
                  ELSE /\ position' = position
                       /\ Return(Top.left)
                       /\ resolverCalls' = resolverCalls
                             + bpInvocations(TokenArg(Token(ty, position)))
    /\ UNCHANGED <<tableVars, stopVars, callerOpts, hostVars, sideVars>>

-----------------------------------------------------------------------------
(* Handlers *)

Running(h, pc) ==
    /\ stack # <<>> /\ Top.k = "handler"
    /\ Top.fn.h = h /\ ~Top.fn.wrap /\ Top.pc = pc

\* either(): inf => fn(Object.assign(inf, {left: null}))
either_nud ==
    /\ stack # <<>> /\ Top.k = "handler" /\ Top.fn.wrap
    /\ stack' = SetTop(stack, [Top EXCEPT !.fn.wrap = FALSE, !.inf.left = Null])
    /\ UNCHANGED <<tableVars, lexerVars, stopVars, callerOpts, result, hostVars>>
    /\ UNCHANGED <<resolverCalls, sideVars>>

\* i => parseInt(i.token.match)
h_num ==
    /\ Running("num", "start")
    /\ Return(NumV(Top.inf.token.match))
    /\ UNCHANGED <<tableVars, lexerVars, stopVars, callerOpts, hostVars>>
    /\ UNCHANGED <<resolverCalls, sideVars>>

\* a prefix handler that returns null
h_nil ==
    /\ Running("nil", "start")
    /\ Return(Null)
    /\ UNCHANGED <<tableVars, lexerVars, stopVars, callerOpts, hostVars>>
    /\ UNCHANGED <<resolverCalls, sideVars>>

\* a stop that flips the flag (mutant)
stop_toggle(handle, x) ==
    /\ stopCalled' = [stopCalled EXCEPT ![handle] = ~@]
    /\ stopArg' = [stopArg EXCEPT ![handle] = x]

\* stop(x): stopCalled = true ...
stop(handle, x) ==
    /\ stopCalled' = [stopCalled EXCEPT ![handle] = TRUE]
    /\ stopArg' = [stopArg EXCEPT ![handle] = x]

\* a stop that returns nothing (mutant)
stopReturns_nothing(x) == Null

\* ... return x
stopReturns(x) == x

\* ({left, stop}) => stop(left)
h_stop ==
    /\ Running("stop", "start")
    /\ stop(Top.inf.stop, Top.inf.left)
    /\ Return(stopReturns(Top.inf.left))
    /\ UNCHANGED <<tableVars, lexerVars, callerOpts, hostVars>>
    /\ UNCHANGED <<resolverCalls, sideVars>>

\* the terminal the led of _binary recurses with
binaryTerminal(fn) == IF fn.ra THEN fn.bp - 1 ELSE fn.bp

\* _binary's led without stop: inf.stop (mutant)
h_binary_call_noStop ==
    /\ Running("binary", "start")
    /\ IF Top.inf.left = Null
       THEN /\ Throw(TypeError)
            /\ UNCHANGED stopVars
       ELSE /\ Call([Top EXCEPT !.pc = "call"],
                    Opts(<<Num(IF Top.fn.ra THEN Top.fn.bp - 1 ELSE Top.fn.bp)>>, 0))
            /\ result' = result
    /\ UNCHANGED <<tableVars, lexerVars, callerOpts, hostVars>>
    /\ UNCHANGED <<resolverCalls, sideVars>>

\* _binary's led: const start = inf.left.start; const right = parse({...
h_binary_call ==
    /\ Running("binary", "start")
    /\ IF Top.inf.left = Null
       THEN /\ Throw(TypeError)
            /\ UNCHANGED stopVars
       ELSE /\ Call([Top EXCEPT !.pc = "call"],
                    Opts(<<Num(binaryTerminal(Top.fn))>>, Top.inf.stop))
            /\ result' = result
    /\ UNCHANGED <<tableVars, lexerVars, callerOpts, hostVars>>
    /\ UNCHANGED <<resolverCalls, sideVars>>

\* ...}); return create(inf.left, op, right)
h_binary_ret ==
    /\ Running("binary", "ret")
    /\ Return(Node(Top.inf.left, Top.fn.op, Top.right))
    /\ UNCHANGED <<tableVars, lexerVars, stopVars, callerOpts, hostVars>>
    /\ UNCHANGED <<resolverCalls, sideVars>>

\* unary's nud: parse({terminals: [inf.bp], stop: inf.stop})
h_unary_call ==
    /\ Running("unary", "start")
    /\ Call([Top EXCEPT !.pc = "call"], Opts(<<Num(Top.inf.bp.n)>>, Top.inf.stop))
    /\ UNCHANGED <<tableVars, lexerVars, callerOpts, result, hostVars>>
    /\ UNCHANGED <<resolverCalls, sideVars>>

\* ... return create(op, right)
h_unary_ret ==
    /\ Running("unary", "ret")
    /\ Return(Prefix(Top.fn.op, Top.right))
    /\ UNCHANGED <<tableVars, lexerVars, stopVars, callerOpts, hostVars>>
    /\ UNCHANGED <<resolverCalls, sideVars>>

\* ({left, bp}) => left + parser.parse({terminals: [bp]})
h_infix_call ==
    /\ Running("infix", "start")
    /\ Call([Top EXCEPT !.pc = "call"], Opts(<<Num(Top.inf.bp.n)>>, 0))
    /\ UNCHANGED <<tableVars, lexerVars, callerOpts, result, hostVars>>
    /\ UNCHANGED <<resolverCalls, sideVars>>

h_infix_ret ==
    /\ Running("infix", "ret")
    /\ Return(Node(Top.inf.left, Top.inf.token.type, Top.right))
    /\ UNCHANGED <<tableVars, lexerVars, stopVars, callerOpts, hostVars>>
    /\ UNCHANGED <<resolverCalls, sideVars>>

\* ({bp}) => { const expr = parser.parse({terminals: [bp]}) ...
h_paren_call ==
    /\ Running("paren", "start")
    /\ Call([Top EXCEPT !.pc = "call"], Opts(<<Num(Top.inf.bp.n)>>, 0))
    /\ UNCHANGED <<tableVars, lexerVars, callerOpts, result, hostVars>>
    /\ UNCHANGED <<resolverCalls, sideVars>>

\* ... lex.expect(')'); return expr }
h_paren_ret ==
    /\ Running("paren", "ret")
    /\ \E ty \in Avail :
          /\ Read(ty)
          /\ IF ty = ")"
             THEN /\ position' = nextPosition(ty)
                  /\ Return(Top.right)
             ELSE /\ position' = position
                  /\ Throw(LexerError)
    /\ UNCHANGED <<tableVars, stopVars, callerOpts, hostVars>>
    /\ UNCHANGED <<resolverCalls, sideVars>>

\* ({left, bp}) => Math.pow(left, parser.parse({terminals: [20 - 1]}))
h_pow_call ==
    /\ Running("pow", "start")
    /\ Call([Top EXCEPT !.pc = "call"], Opts(<<Num(20 - 1)>>, 0))
    /\ UNCHANGED <<tableVars, lexerVars, callerOpts, result, hostVars>>
    /\ UNCHANGED <<resolverCalls, sideVars>>

h_pow_ret ==
    /\ Running("pow", "ret")
    /\ Return(Node(Top.inf.left, "^", Top.right))
    /\ UNCHANGED <<tableVars, lexerVars, stopVars, callerOpts, hostVars>>
    /\ UNCHANGED <<resolverCalls, sideVars>>

\* ({left, bp}) => (left || 0) - parser.parse({terminals: [bp]})
h_minus_call ==
    /\ Running("minus", "start")
    /\ Call([Top EXCEPT !.pc = "call"], Opts(<<Num(Top.inf.bp.n)>>, 0))
    /\ UNCHANGED <<tableVars, lexerVars, callerOpts, result, hostVars>>
    /\ UNCHANGED <<resolverCalls, sideVars>>

h_minus_ret ==
    /\ Running("minus", "ret")
    /\ Return(Node(IF Top.inf.left = Null THEN Zero ELSE Top.inf.left, "-",
                   Top.right))
    /\ UNCHANGED <<tableVars, lexerVars, stopVars, callerOpts, hostVars>>
    /\ UNCHANGED <<resolverCalls, sideVars>>

-----------------------------------------------------------------------------
(* Parser.parseList: the five callbacks are the host's, their results are
   inputs; trace lists the callback calls made, in order *)

\* one callback call: which callback, and what it returned
Called(f, b, v) == [f |-> f, b |-> b, v |-> v]

\* the values parseItem may return
ItemValues == {NumV(<<"NUM", 1>>), Null}

listRest == <<tableVars, lexerVars, stack, stopVars, callerOpts, result,
              hostVars, resolverValue, resolverCalls, history>>

\* const items = []
parseList_call ==
    /\ listRun.pc = "none"
    /\ listRun' = [pc |-> "test", items |-> <<>>, trace |-> <<>>]
    /\ UNCHANGED listRest

\* while (!opts.isNextCloser()), the callback returning b
parseList_isNextCloser(b) ==
    /\ listRun.pc = "test"
    /\ Len(listRun.items) >= MaxItems => b
    /\ listRun' = [listRun EXCEPT
                     !.trace = Append(@, Called("isNextCloser", b, Null)),
                     !.pc = IF b THEN "close" ELSE "item"]
    /\ UNCHANGED listRest

\* items.push(opts.parseItem()), the callback returning v
parseList_parseItem(v) ==
    /\ listRun.pc = "item"
    /\ listRun' = [listRun EXCEPT
                     !.items = Append(@, v),
                     !.trace = Append(@, Called("parseItem", FALSE, v)),
                     !.pc = "sep"]
    /\ UNCHANGED listRest

\* the separator test that always goes on to consumeSeparator (mutant)
parseList_isNextSeparator_always(b) ==
    /\ listRun.pc = "sep"
    /\ listRun' = [listRun EXCEPT
                     !.trace = Append(@, Called("isNextSeparator", b, Null)),
                     !.pc = "consume"]
    /\ UNCHANGED listRest

\* if (opts.isNextSeparator()) ..., the callback returning b
parseList_isNextSeparator(b) ==
    /\ listRun.pc = "sep"
    /\ listRun' = [listRun EXCEPT
                     !.trace = Append(@, Called("isNextSeparator", b, Null)),
                     !.pc = IF b THEN "consume" ELSE "test"]
    /\ UNCHANGED listRest

\* ... opts.consumeSeparator()
parseList_consumeSeparator ==
    /\ listRun.pc = "consume"
    /\ listRun' = [listRun EXCEPT
                     !.trace = Append(@, Called("consumeSeparator", FALSE, Null)),
                     !.pc = "test"]
    /\ UNCHANGED listRest

\* opts.consumeCloser(); return items
parseList_consumeCloser ==
    /\ listRun.pc = "close"
    /\ listRun' = [listRun EXCEPT
                     !.trace = Append(@, Called("consumeCloser", FALSE, Null)),
                     !.pc = "done"]
    /\ UNCHANGED listRest

-----------------------------------------------------------------------------
(* The specifications *)

\* the parser under the grammars of test 'Helpers' and of the stop handler
Next ==
    \/ \E session \in Sessions : Build(session)
    \/ \E opts \in HostOpts : parse_fresh(opts)
    \/ parse_kept
    \/ parse_nud
    \/ parse_loop
    \/ either_nud
    \/ h_num
    \/ h_nil
    \/ h_stop
    \/ h_binary_call
    \/ h_binary_ret
    \/ h_infix_call
    \/ h_infix_ret

Spec == Init /\ [][Next]_vars

\* the parser under the calculator grammar of the test suite
NextCalc ==
    \/ Build(CalcSession)
    \/ parse_fresh(DefaultOpts)
    \/ parse_nud
    \/ parse_loop
    \/ either_nud
    \/ h_num
    \/ h_stop
    \/ h_infix_call
    \/ h_infix_ret
    \/ h_paren_call
    \/ h_paren_ret
    \/ h_pow_call
    \/ h_pow_ret
    \/ h_minus_call
    \/ h_minus_ret

SpecCalc == Init /\ [][NextCalc]_vars

\* the binding-power query on a built parser
NextBp ==
    \/ \E session \in Sessions \cup {CalcSession} : Build(session)
    \/ \E x \in BpArgs : bp_query(x)

SpecBp == Init /\ [][NextBp]_vars

\* the parser whose NUM has a resolver as binding power, between builder
\* calls, changes of the resolver's result and bp queries
NextDyn ==
    \/ Build(DynSession)
    \/ \E c \in DynCalls : builder_call(c)
    \/ \E v \in ResolverValues : resolver_change(v)
    \/ \E x \in DynBpArgs : bp_query(x)
    \/ parse_fresh(DefaultOpts)
    \/ parse_nud
    \/ parse_loop
    \/ h_num
    \/ h_infix_call
    \/ h_infix_ret

SpecDyn == Init /\ [][NextDyn]_vars

\* the parser under the '-' of test 'Helpers': binary() and unary()
NextUnary ==
    \/ \E session \in UnarySessions : Build(session)
    \/ parse_fresh(DefaultOpts)
    \/ parse_nud
    \/ parse_loop
    \/ h_num
    \/ h_unary_call
    \/ h_unary_ret
    \/ h_binary_call
    \/ h_binary_ret

SpecUnary == Init /\ [][NextUnary]_vars

\* the parser under terminals lists without a number and with entries of
\* neither kind
NextTerm ==
    \/ Build(TermSession)
    \/ \E opts \in TermOpts : parse_fresh(opts)
    \/ parse_nud
    \/ parse_loop
    \/ h_num
    \/ h_binary_call
    \/ h_binary_ret

SpecTerm == Init /\ [][NextTerm]_vars

\* the steps of a running parse call: the parser's own code and the
\* handlers, which run on once called
Run ==
    \/ parse_nud
    \/ parse_loop
    \/ h_num
    \/ h_binary_call
    \/ h_binary_ret

\* the parser under every terminals list of TermOpts, with and without an
\* infix rule for the end-of-input token; a call that was made keeps running
NextLive ==
    \/ \E session \in {TermSession, EofLedSession} : Build(session)
    \/ \E opts \in TermOpts : parse_fresh(opts)
    \/ parse_nud
    \/ parse_loop
    \/ h_num
    \/ h_binary_call
    \/ h_binary_ret

SpecLive == Init /\ [][NextLive]_vars /\ WF_vars(Run)

\* the parser called again and again with the options object the host
\* keeps, whose handle a ';' triggers; unary() hands the handle on
NextKept ==
    \/ Build(StopUnarySession)
    \/ parse_kept
    \/ parse_nud
    \/ parse_loop
    \/ either_nud
    \/ h_num
    \/ h_stop
    \/ h_unary_call
    \/ h_unary_ret

SpecKept == Init /\ [][NextKept]_vars

\* every operation of the parser beside the builder: parse with its nud and
\* led dispatch, the bp query, parseList, between builder calls that
\* re-register the bp of NUM (test 'BPResolver'). The host runs one
\* operation at a time: after its builder calls either parseList, or bp
\* queries and parse calls.
NextFrame ==
    \/ Build(TermSession)
    \/ \E c \in DynCalls : listRun.pc = "none" /\ builder_call(c)
    \/ \E x \in DynBpArgs : listRun.pc = "none" /\ bp_query(x)
    \/ listRun.pc = "none" /\ parse_fresh(DefaultOpts)
    \/ parse_nud
    \/ parse_loop
    \/ h_num
    \/ h_binary_call
    \/ h_binary_ret
    \/ built # <<>> /\ calls = 0 /\ ~bpResult.called /\ parseList_call
    \/ \E b \in BOOLEAN : parseList_isNextCloser(b)
    \/ \E v \in ItemValues : parseList_parseItem(v)
    \/ \E b \in BOOLEAN : parseList_isNextSeparator(b)
    \/ parseList_consumeSeparator
    \/ parseList_consumeCloser

SpecFrame == Init /\ [][NextFrame]_vars

\* the builder calls on one parser, in every order, one by one and chained
\* in a session
NextBuild ==
    \/ \E c \in BuilderCalls : builder_call(c)
    \/ Build(DynSession)

SpecBuild == Init /\ [][NextBuild]_vars

\* parseList under every behaviour of its callbacks
NextList ==
    \/ parseList_call
    \/ \E b \in BOOLEAN : parseList_isNextCloser(b)
    \/ \E v \in ItemValues : parseList_parseItem(v)
    \/ \E b \in BOOLEAN : parseList_isNextSeparator(b)
    \/ parseList_consumeSeparator
    \/ parseList_consumeCloser

SpecList == Init /\ [][NextList]_vars

-----------------------------------------------------------------------------
(* Vocabulary of the properties *)

\* a parse call is about to dispatch its first token / to check its loop
NudAt == stack # <<>> /\ Top.k = "parse" /\ Top.pc = "nud"
LoopAt == stack # <<>> /\ Top.k = "parse" /\ Top.pc = "loop"

\* in a step that reads the token at position: that token
PeekedToken ==
    Token(IF position <= Len(source') THEN source'[position] ELSE NullKey,
          position)

\* the step makes the parse call f return its left, consuming nothing
Returned(f) ==
    /\ position' = position
    /\ IF Len(stack) = 1
       THEN stack' = <<>> /\ result' = [st |-> "returned", v |-> f.left]
       ELSE /\ Len(stack') = Len(stack) - 1
            /\ stack'[Len(stack')].k = "handler"
            /\ stack'[Len(stack')].right = f.left

\* the step consumes t and dispatches it on the led table with f's left
LedStep(f, t) ==
    /\ position' = IF t.eof THEN position ELSE position + 1
    /\ \/ stack' = <<>> /\ result'.st = "threw"
       \/ /\ Len(stack') = Len(stack) + 1
          /\ stack'[Len(stack')].k = "handler"
          /\ stack'[Len(stack')].inf.token = t
          /\ stack'[Len(stack')].inf.left = f.left

\* the step raises UnexpectedToken naming t's text and t's start
ThrewUnexpected(t) ==
    /\ stack' = <<>>
    /\ result' = [st |-> "threw",
                  v |-> <<"Unexpected token", <<t.type, t.start>>, t.start>>]

\* a terminals entry permits continuation against the peeked token t
Permits(r, t) ==
    \/ r[1] = "number" /\ Lt(Fin(r[2]), bp(TokenArg(t)))
    \/ r[1] = "string" /\ t.type # r[2]

PermitAll(f, t) == \A i \in DOMAIN f.terminals : Permits(f.terminals[i], t)

\* the last top-level call has ended
Ended == stack = <<>> /\ result.st \in {"returned", "threw"}

\* the value of the operand token at index i of the input
OperandTypes == {"NUM", "NIL"}
OperandValue(i) == IF source[i] = "NUM" THEN NumV(<<"NUM", i>>) ELSE Null

-----------------------------------------------------------------------------
(* C1 *)

\* C1: a parse call at its loop check consumes the next token and dispatches
\* its led exactly when its Stop Handle is not triggered and every entry of
\* terminals permits the peeked token (a number r iff r < bp(peeked), a type
\* iff it differs from peeked.type); otherwise it returns left and the peeked
\* token stays the next token of the stream.
C1_LoopCondition ==
    [][LoopAt =>
         IF ~stopCalled[Top.stop] /\ PermitAll(Top, PeekedToken)
         THEN LedStep(Top, PeekedToken)
         ELSE Returned(Top)]_vars

\* a call under terminals ['NUM', 0] folded an operator in and then returned
\* in front of a NUM token, which is still the next token
C1_Witness ==
    /\ Ended /\ result.st = "returned" /\ result.v[1] = "node"
    /\ callOpts.terminals = <<Ty("NUM"), Num(0)>>
    /\ position <= Len(source) /\ source[position] = "NUM"

-----------------------------------------------------------------------------
(* C2, C3 *)

\* the first call, made with default terminals under a 'Helpers' session
HelpersCall ==
    /\ built # <<>> /\ built[1] = "helpers"
    /\ calls = 1 /\ callOpts = DefaultOpts /\ Ended

\* the input read so far is operand (op operand)* up to n tokens with the
\* operators ops[1], ops[2], ..., and can still be all of it; Complete: it is
ChainSoFar(ops, n) ==
    /\ Len(source) <= n
    /\ \A i \in 1..Len(source) :
          IF i % 2 = 1 THEN source[i] \in OperandTypes
          ELSE source[i] = ops[i \div 2]
    /\ closed => Len(source) = n
Complete(n) == Len(source) = n

\* C2: higher binding power binds tighter. Two binary() operators, lo at the
\* lower and hi at the higher binding power (both above the default terminal
\* 0): 'x lo y hi z' parses to create(x, lo, create(y, hi, z)) and
\* 'x hi y lo z' to create(create(x, hi, y), lo, z).
C2_Precedence ==
    (HelpersCall /\ built[4] = "binary" /\ built[2] # built[3]) =>
       LET lo == IF built[2] < built[3] THEN "a" ELSE "b"
           hi == IF built[2] < built[3] THEN "b" ELSE "a"
           X == OperandValue(1)
           Y == OperandValue(3)
           Z == OperandValue(5)
       IN /\ ChainSoFar(<<lo, hi>>, 5) =>
               /\ Complete(5)
               /\ result = [st |-> "returned",
                            v |-> Node(X, lo, Node(Y, hi, Z))]
          /\ ChainSoFar(<<hi, lo>>, 5) =>
               /\ Complete(5)
               /\ result = [st |-> "returned",
                            v |-> Node(Node(X, hi, Y), lo, Z)]

\* create(...create(create(x1, op, x2), op, x3)..., op, xn), operands at the
\* odd indices 1..n of the input
RECURSIVE LeftChain(_, _)
LeftChain(op, n) ==
    IF n = 1 THEN OperandValue(1)
    ELSE Node(LeftChain(op, n - 2), op, OperandValue(n))

\* create(xi, op, create(..., op, xn))
RECURSIVE RightChain(_, _, _)
RightChain(op, i, n) ==
    IF i = n THEN OperandValue(n)
    ELSE Node(OperandValue(i), op, RightChain(op, i + 2, n))

\* the odd lengths of a chain of at least two operands
ChainLengths == {n \in 3..MaxLen : n % 2 = 1}

\* C3: a chain x op y op z ... of an operator registered with binary() parses
\* left-nested, of an operator registered with rassoc() right-nested, for
\* every length of the chain.
C3_Associativity ==
    HelpersCall =>
       \A n \in ChainLengths :
          /\ ChainSoFar([i \in 1..n |-> "a"], n) =>
               /\ Complete(n)
               /\ result = [st |-> "returned", v |-> LeftChain("a", n)]
          /\ ChainSoFar([i \in 1..n |-> "b"], n) =>
               /\ Complete(n)
               /\ result = [st |-> "returned",
                            v |-> IF built[4] = "rassoc"
                                  THEN RightChain("b", 1, n)
                                  ELSE LeftChain("b", n)]

-----------------------------------------------------------------------------
(* C4 *)

\* standard arithmetic: '^' binds tightest and is right-associative, then
\* '*' and '/', then '+' and '-', all left-associative
StdPrec(op) == CASE op = "^" -> 3
                 [] op \in {"*", "/"} -> 2
                 [] op \in {"+", "-"} -> 1

\* the value of the chain source[i..j] (operands at odd indices) in standard
\* arithmetic: split at the operator of lowest precedence, the rightmost one
\* of a left-associative level, the leftmost one of '^'
RECURSIVE StdTree(_, _)
StdTree(i, j) ==
    IF i = j THEN NumV(<<"NUM", i>>)
    ELSE LET ops == {k \in i..j : k % 2 = 0}
             low == CHOOSE k \in ops : \A m \in ops :
                       StdPrec(source[k]) <= StdPrec(source[m])
             level == {k \in ops : StdPrec(source[k]) = StdPrec(source[low])}
             at == IF StdPrec(source[low]) = 3
                   THEN CHOOSE k \in level : \A m \in level : k <= m
                   ELSE CHOOSE k \in level : \A m \in level : k >= m
         IN Node(StdTree(i, at - 1), source[at], StdTree(at + 1, j))

\* the input read so far is NUM (op NUM)* with binary operators of the
\* calculator, and can still be all of the input
CalcChainSoFar ==
    /\ \A i \in 1..Len(source) :
          IF i % 2 = 1 THEN source[i] = "NUM"
          ELSE source[i] \in {"+", "-", "*", "/", "^"}
    /\ closed => Len(source) % 2 = 1

\* C4: under the calculator grammar every chain NUM op NUM op ... NUM is
\* evaluated by standard precedence and associativity.
C4_StandardArithmetic ==
    (built = <<"calc">> /\ calls = 1 /\ Ended /\ CalcChainSoFar) =>
       /\ closed
       /\ result = [st |-> "returned", v |-> StdTree(1, Len(source))]

-----------------------------------------------------------------------------
(* C5 *)

\* the parse frames below index i of the stack
ParseFramesBelow(i) == {j \in 1..(i - 1) : stack[j].k = "parse"}

\* a sub-parse started by the led of binary() runs under the handle of the
\* loop that dispatched the led; one started by a handler that passes no
\* handle runs under a handle no enclosing loop has
HandleScopes ==
    \A i \in 2..(Len(stack) - 1) :
       (stack[i].k = "handler" /\ stack[i].pc = "call") =>
          /\ stack[i].fn.h = "binary" => stack[i + 1].stop = stack[i - 1].stop
          /\ stack[i].fn.h = "infix" =>
                \A j \in ParseFramesBelow(i) : stack[i + 1].stop # stack[j].stop

\* C5: a stop ends exactly the loops that share the handle. A loop whose
\* handle is triggered returns at its next check without peeking or consuming
\* (and a triggered handle stays triggered until then); the loops sharing a
\* handle are the enclosing loop and the outer loops the handle was passed
\* from; a loop whose own handle is not triggered goes on whenever its
\* terminals permit, whatever other handle was triggered.
C5_StopScope ==
    [][/\ HandleScopes
       /\ \A h \in DOMAIN stopCalled : stopCalled[h] => stopCalled'[h]
       /\ LoopAt =>
            IF stopCalled[Top.stop]
            THEN Returned(Top) /\ UNCHANGED lexerVars
            ELSE PermitAll(Top, PeekedToken) => LedStep(Top, PeekedToken)]_vars

\* two loops on the stack share a handle that a handler has triggered
C5_Witness ==
    \E i, j \in DOMAIN stack :
       /\ i < j /\ stack[i].k = "parse" /\ stack[j].k = "parse"
       /\ stack[i].stop = stack[j].stop /\ stopCalled[stack[i].stop]

\* a loop is about to go on although a sub-parse under another handle was
\* stopped
C5_OtherHandle ==
    /\ LoopAt /\ ~stopCalled[Top.stop]
    /\ \E h \in DOMAIN stopCalled : h > Top.stop /\ stopCalled[h]

-----------------------------------------------------------------------------
(* C6 *)

\* C6: every top-level parse call the host gives no Stop Handle runs under a
\* handle that is not triggered when the call starts.
C6_FreshHandle ==
    (Len(stack) = 1 /\ NudAt) => ~stopCalled[Top.stop]

-----------------------------------------------------------------------------
(* C7 *)

\* C7 as claimed: a parse call whose loop a stop ends returns the value given
\* to stop (calls under the options object the host keeps are left out)
C7_ReturnsStopValue ==
    (LoopAt /\ stopCalled[Top.stop] /\ callerOpts.stop # Top.stop) =>
       Top.left = stopArg[Top.stop]

\* C7 as amended: stop(v) marks the handle triggered and hands v back to the
\* handler, the handle keeps no value. The parse call that dispatched the
\* handler has the handler's return value as left (v for the handler
\* ({left, stop}) => stop(left)), and a parse call whose handle is triggered
\* returns its own left: the value its last handler returned.
C7_StopResult ==
    [][/\ Running("stop", "start") =>
            /\ stopCalled'[Top.inf.stop]
            /\ Len(stack') = Len(stack) - 1
            /\ stack'[Len(stack')].k = "parse"
            /\ stack'[Len(stack')].pc = "loop"
            /\ stack'[Len(stack')].stop = Top.inf.stop
            /\ stack'[Len(stack')].left = Top.inf.left
       /\ (LoopAt /\ stopCalled[Top.stop]) => Returned(Top)]_vars

\* a top-level call returned the value a handler gave to stop
C7_Witness ==
    /\ Ended /\ result.st = "returned" /\ result.v # Null
    /\ \E h \in DOMAIN stopCalled : stopCalled[h] /\ stopArg[h] = result.v

-----------------------------------------------------------------------------
(* C8 *)

\* C8: a token dispatched in prefix position without nud entry, or consumed
\* by the loop without led entry, raises UnexpectedToken with the token's
\* text and start; no handler runs in its place.
C8_NoDefaultHandler ==
    [][/\ (NudAt /\ PeekedToken.type \notin DOMAIN _nuds) =>
            ThrewUnexpected(PeekedToken)
       /\ (LoopAt /\ ~Returned(Top) /\ PeekedToken.type \notin DOMAIN _leds) =>
            ThrewUnexpected(PeekedToken)]_vars

\* the loop consumed a token that has a nud but no led, and the error names it
C8_Witness ==
    /\ Len(source) >= 2
    /\ Ended /\ result.st = "threw" /\ result.v[1] = "Unexpected token"
    /\ result.v[3] = 2 /\ result.v[2] = <<source[2], 2>>
    /\ source[2] \in DOMAIN _nuds /\ source[2] \notin DOMAIN _leds

-----------------------------------------------------------------------------
(* C9 *)

\* C9: whenever a parse fails although handlers, callbacks and the token
\* stream succeed, the failure is an UnexpectedToken.
C9_OnlyUnexpectedToken ==
    result.st = "threw" => result.v[1] = "Unexpected token"

-----------------------------------------------------------------------------
(* C10 *)

\* C10: bp(x) is negative infinity for the null key and for a token at the
\* end of the input, whatever the table holds; else positive infinity for a
\* type without entry and n for a type whose entry is the number n.
C10_BindingPower ==
    bpResult.called =>
       LET x == bpResult.arg IN
       IF x.tag = "null" \/ (x.tag = "token" /\ x.eof)
       THEN bpResult.value = [inf |-> -1, n |-> 0]
       ELSE IF x.type \notin DOMAIN _bps
       THEN bpResult.value = [inf |-> 1, n |-> 0]
       ELSE bpResult.value = [inf |-> 0, n |-> _bps[x.type].n]

\* bp was asked for an end-of-input token whose type has a table entry
C10_Witness ==
    /\ bpResult.called /\ bpResult.arg.tag = "token" /\ bpResult.arg.eof
    /\ bpResult.arg.type \in DOMAIN _bps
    /\ bpResult.value = NEGATIVE_INFINITY

-----------------------------------------------------------------------------
(* C11 *)

\* the type of the token has a resolver as table entry
Dynamic(type) == type \in DOMAIN _bps /\ _bps[type].dyn

\* C11: a resolver is never cached. A bp query on a type with a dynamic
\* entry invokes the resolver once and returns what the resolver returns at
\* that moment; a parse step invokes it once per bp call it makes on a token
\* of such a type (mkinfo for a token taken, check for a token peeked at),
\* and the parse of one token of that type followed by the end of the input
\* has invoked it exactly once when it returns.
C11_NeverCached ==
    [][/\ \A x \in DynBpArgs :
            (bp_query(x) /\ Dynamic(x.type) /\ ~x.eof) =>
               /\ resolverCalls' = resolverCalls + 1
               /\ bpResult'.value = Fin(resolverValue)
       /\ (NudAt /\ Dynamic(PeekedToken.type)) =>
            resolverCalls' = resolverCalls + 1
       /\ (LoopAt /\ ~stopCalled[Top.stop] /\ Dynamic(PeekedToken.type)) =>
            resolverCalls' = resolverCalls
                             + (IF position' = position THEN 1 ELSE 2)
       /\ (/\ LoopAt /\ Len(stack) = 1 /\ calls = 1 /\ ~bpResult.called
           /\ Dynamic("NUM") /\ source' = <<"NUM">> /\ closed') =>
            /\ resolverCalls' = 1
            /\ result' = [st |-> "returned", v |-> NumV(<<"NUM", 1>>)]]_vars

\* two queries on the type with the resolver returned different numbers,
\* and the single-token parse that followed invoked the resolver once more
C11_Witness ==
    /\ Ended /\ calls = 1 /\ source = <<"NUM">> /\ closed
    /\ bpResult.called /\ bpResult.arg = TypeArg("NUM")
    /\ bpResult.value = Fin(0) /\ resolverValue = 0
    /\ resolverCalls = 3

-----------------------------------------------------------------------------
(* C12 *)

\* the options of a call without argument, with terminals absent or null,
\* and with the empty list
DefaultLike == {DefaultOpts, NullTerminalsOpts, Opts(<<>>, 0)}

\* C12: a top-level parse called without options, or with terminals absent,
\* null or empty, starts without error under the one terminal 0, and its
\* loop consumes the peeked token exactly while bp(peeked) > 0 (and the
\* handle is not triggered); otherwise it returns left.
C12_DefaultTerminals ==
    [][/\ (stack = <<>> /\ stack' # <<>> /\ callOpts' \in DefaultLike) =>
            /\ result'.st = "running"
            /\ Len(stack') = 1
            /\ stack'[1].terminals = <<Num(0)>>
       /\ (LoopAt /\ Len(stack) = 1 /\ callOpts \in DefaultLike) =>
            IF ~stopCalled[Top.stop] /\ Lt(Fin(0), bp(TokenArg(PeekedToken)))
            THEN LedStep(Top, PeekedToken)
            ELSE Returned(Top)]_vars

\* a call with the empty terminals list folded an operator in and returned
\* at the end of the input
C12_Witness ==
    /\ Ended /\ result.st = "returned" /\ result.v[1] = "node"
    /\ callOpts = Opts(<<>>, 0) /\ closed /\ position > Len(source)

-----------------------------------------------------------------------------
(* C13 *)

\* the types registered through either()
EitherTypes == {history[i].type : i \in {j \in DOMAIN history : history[j].m = "either"}}

\* the step dispatches the led of a type registered through either()
EitherLedStep ==
    /\ LoopAt /\ Len(stack') = Len(stack) + 1
    /\ stack'[Len(stack')].k = "handler"
    /\ stack'[Len(stack')].inf.token.type \in EitherTypes

\* C13 as claimed: the left a handler registered through either() receives
\* in infix position is never the value it receives in prefix position
C13_SentinelDistinct ==
    [][EitherLedStep => stack'[Len(stack')].inf.left # Null]_vars

\* C13 as amended: either() registers the one handler as led and, wrapped,
\* as nud of the type; in prefix position the wrapper hands it left = null;
\* in infix position it gets the left of the dispatching loop, whatever the
\* previous handler returned, null included.
C13_EitherLeft ==
    [][/\ \A t \in EitherTypes :
            /\ t \in DOMAIN _nuds /\ t \in DOMAIN _leds
            /\ _nuds[t] = [_leds[t] EXCEPT !.wrap = TRUE]
       /\ (stack # <<>> /\ Top.k = "handler" /\ Top.fn.wrap) =>
            /\ stack' = SetTop(stack, [Top EXCEPT !.fn = _leds[Top.inf.token.type],
                                                  !.inf.left = Null])
       /\ EitherLedStep =>
            /\ stack'[Len(stack')].fn = _leds[stack'[Len(stack')].inf.token.type]
            /\ stack'[Len(stack')].inf.left = Top.left]_vars

\* '(;)-1': the handler of '-' ran in infix position with left = null and
\* took it for prefix use
C13_Witness ==
    /\ Ended /\ source = <<"(", ";", ")", "-", "NUM">>
    /\ result = [st |-> "returned", v |-> Node(Zero, "-", NumV(<<"NUM", 5>>))]

-----------------------------------------------------------------------------
(* C14 *)

\* C14: the prefix rule unary(op, bp, create) registers parses its operand
\* in a parse call with the one terminal bp, the value given to unary(),
\* under the handle of the dispatching call, and returns create(op, operand),
\* whatever else was registered before or after.
C14_UnaryTerminal ==
    [][/\ Running("unary", "start") =>
            /\ Len(stack') = Len(stack) + 1
            /\ stack'[Len(stack')].k = "parse"
            /\ stack'[Len(stack')].terminals = <<Num(Top.fn.bp)>>
            /\ stack'[Len(stack')].stop = Top.inf.stop
       /\ Running("unary", "ret") =>
            /\ Len(stack') = Len(stack) - 1
            /\ stack'[Len(stack')].left = Prefix(Top.fn.op, Top.right)]_vars

-----------------------------------------------------------------------------
(* C15 *)

\* the indices of trace at which callback f was called
CallsOf(f) == {i \in DOMAIN listRun.trace : listRun.trace[i].f = f}

\* the values parseItem returned, in call order: those among trace[i..]
RECURSIVE ItemsFrom(_)
ItemsFrom(i) ==
    IF i > Len(listRun.trace) THEN <<>>
    ELSE IF listRun.trace[i].f = "parseItem"
         THEN <<listRun.trace[i].v>> \o ItemsFrom(i + 1)
         ELSE ItemsFrom(i + 1)

\* C15: the items parseList holds are the values parseItem returned, in call
\* order; parseItem is called directly after every isNextCloser() that
\* returned false and only then; consumeSeparator is called only directly
\* after an isNextSeparator() that returned true, which directly follows an
\* item, and after every such test; when parseList has returned,
\* consumeCloser was called exactly once, as the last call, after an
\* isNextCloser() that returned true; with the closer next at entry the
\* result is empty and only consumeCloser was called.
C15_ParseList ==
    LET trace == listRun.trace IN
    /\ listRun.items = ItemsFrom(1)
    /\ \A i \in CallsOf("parseItem") :
          i > 1 /\ trace[i - 1].f = "isNextCloser" /\ ~trace[i - 1].b
    /\ \A i \in CallsOf("isNextCloser") :
          (~trace[i].b /\ i < Len(trace)) => trace[i + 1].f = "parseItem"
    /\ \A i \in CallsOf("consumeSeparator") :
          /\ i > 2
          /\ trace[i - 1].f = "isNextSeparator" /\ trace[i - 1].b
          /\ trace[i - 2].f = "parseItem"
    /\ \A i \in CallsOf("isNextSeparator") :
          /\ trace[i - 1].f = "parseItem"
          /\ i < Len(trace) =>
                (trace[i + 1].f = "consumeSeparator") = trace[i].b
    /\ \A i \in CallsOf("consumeCloser") : i = Len(trace) /\ listRun.pc = "done"
    /\ listRun.pc = "done" =>
          /\ Cardinality(CallsOf("consumeCloser")) = 1
          /\ trace[Len(trace) - 1].f = "isNextCloser" /\ trace[Len(trace) - 1].b
          /\ Cardinality(CallsOf("parseItem")) =
                Cardinality({i \in CallsOf("isNextCloser") : ~trace[i].b})
          /\ trace[1].b =>
                /\ listRun.items = <<>>
                /\ Len(trace) = 2

\* a list of two items returned, a separator consumed after the first item
\* only
C15_Witness ==
    /\ listRun.pc = "done" /\ Len(listRun.items) = 2
    /\ Cardinality(CallsOf("consumeSeparator")) = 1
    /\ listRun.trace[4].f = "consumeSeparator"

\* the closer was next at entry
C15_EmptyList ==
    listRun.pc = "done" /\ listRun.items = <<>>

-----------------------------------------------------------------------------
(* C16 *)

\* the builder calls so far that name type t with a method among ms
NamedBy(t, ms) ==
    {i \in DOMAIN history : history[i].type = t /\ history[i].m \in ms}

\* the most recent call among the calls S
Latest(S) == history[CHOOSE i \in S : \A j \in S : j <= i]

BpMethods ==
    {"bp", "bp_resolver", "nud", "led", "either", "unary", "binary", "rassoc"}
NudMethods == {"nud", "either", "unary"}
LedMethods == {"led", "either", "binary", "rassoc"}

\* what builder call c passes as binding power, as prefix and as infix handler
BpOf(c) ==
    IF c.m = "bp_resolver" THEN [dyn |-> TRUE, n |-> 0]
    ELSE [dyn |-> FALSE, n |-> c.bp]
NudOf(c) ==
    CASE c.m = "nud" -> c.fn
      [] c.m = "either" -> [c.fn EXCEPT !.wrap = TRUE]
      [] c.m = "unary" -> [Fn("unary") EXCEPT !.op = c.type, !.bp = c.bp]
LedOf(c) ==
    CASE c.m = "led" -> c.fn
      [] c.m = "either" -> c.fn
      [] c.m = "binary" -> [Fn("binary") EXCEPT !.op = c.type, !.bp = c.bp]
      [] c.m = "rassoc" ->
           [Fn("binary") EXCEPT !.op = c.type, !.bp = c.bp, !.ra = TRUE]

\* C16: last registration wins, per table. For every token type the bp
\* entry is the bp of the most recent builder call naming the type, the nud
\* entry the handler of the most recent nud/either/unary call, the led entry
\* the handler of the most recent led/either/binary/rassoc call; a type no
\* such call named has no entry.
C16_LastWins ==
    \A t \in {history[i].type : i \in DOMAIN history} \cup {"NUM", "-"} :
       /\ IF NamedBy(t, BpMethods) = {} THEN t \notin DOMAIN _bps
          ELSE t \in DOMAIN _bps /\ _bps[t] = BpOf(Latest(NamedBy(t, BpMethods)))
       /\ IF NamedBy(t, NudMethods) = {} THEN t \notin DOMAIN _nuds
          ELSE t \in DOMAIN _nuds
               /\ _nuds[t] = NudOf(Latest(NamedBy(t, NudMethods)))
       /\ IF NamedBy(t, LedMethods) = {} THEN t \notin DOMAIN _leds
          ELSE t \in DOMAIN _leds
               /\ _leds[t] = LedOf(Latest(NamedBy(t, LedMethods)))

\* after the chained session, NUM was registered by either() and then by
\* bp() with a resolver: its nud and led stem from either(), its bp from the
\* last call
C16_Witness ==
    /\ built # <<>> /\ Len(history) = Len(DynSession.calls) + 2
    /\ history[Len(history) - 1].m = "either"
    /\ history[Len(history) - 1].type = "NUM"
    /\ history[Len(history)].m = "bp_resolver"
    /\ history[Len(history)].type = "NUM"
    /\ _nuds["NUM"].h = "minus" /\ _leds["NUM"].h = "minus" /\ _bps["NUM"].dyn

-----------------------------------------------------------------------------
(* C17 *)

\* C17: whatever the terminals list, a parse call that peeks at the end of
\* the input at its loop check returns left; the end-of-input token is never
\* consumed as an operator.
C17_EofStops ==
    [][(LoopAt /\ PeekedToken.eof) => Returned(Top)]_vars

-----------------------------------------------------------------------------
(* C18 *)

\* the terminals of the call hold an entry that is neither number nor type
HasOther(f) == \E i \in DOMAIN f.terminals : f.terminals[i] = Other

\* the entries of a recognized kind all permit the peeked token
PermitRecognized(f, t) ==
    \A i \in DOMAIN f.terminals :
       f.terminals[i] # Other => Permits(f.terminals[i], t)

\* C18 as claimed: an entry of unrecognized shape counts as 'continue': the
\* loop goes on exactly when the handle is untriggered and the other entries
\* permit.
C18_OtherContinues ==
    [][(LoopAt /\ HasOther(Top)) =>
         IF ~stopCalled[Top.stop] /\ PermitRecognized(Top, PeekedToken)
         THEN LedStep(Top, PeekedToken)
         ELSE Returned(Top)]_vars

\* C18 as amended: an entry of unrecognized shape ends the loop: at whatever
\* position of the list it stands, the check fails, parse returns left
\* without consuming the peeked token, and nothing is raised.
C18_OtherStops ==
    [][(LoopAt /\ HasOther(Top)) =>
         /\ Returned(Top)
         /\ result'.st # "threw"]_vars

\* a call under terminals [0, other] returned its first operand in front of
\* an operator that the entry 0 permits
C18_Witness ==
    /\ Ended /\ callOpts = Opts(<<Num(0), Other>>, 0)
    /\ source = <<"NUM", "a">> /\ position = 2
    /\ result = [st |-> "returned", v |-> NumV(<<"NUM", 1>>)]

-----------------------------------------------------------------------------
(* C19 *)

\* C19: a Stop Handle has two states. Its flag is false when createStop
\* makes it, turns true only in a step in which a handler calls stop() on
\* it, and is never false again, also when stop() is called once more; a
\* loop whose handle is triggered dispatches no led: it returns at its check.
C19_StopHandle ==
    [][/\ Len(stopCalled') >= Len(stopCalled)
       /\ \A h \in DOMAIN stopCalled' :
            IF h \notin DOMAIN stopCalled THEN ~stopCalled'[h]
            ELSE /\ stopCalled[h] => stopCalled'[h]
                 /\ (~stopCalled[h] /\ stopCalled'[h]) =>
                       (Running("stop", "start") /\ Top.inf.stop = h)
       /\ (Running("stop", "start") /\ stopCalled[Top.inf.stop]) =>
            stopCalled'[Top.inf.stop]
       /\ (LoopAt /\ stopCalled[Top.stop]) =>
            /\ Returned(Top)
            /\ Len(stack') < Len(stack)]_vars

\* a handler called stop() on a handle that was triggered before, and the
\* loop of that call has returned
C19_Witness ==
    /\ Ended /\ calls = 2 /\ result.st = "returned"
    /\ Len(stopCalled) = 1 /\ stopCalled[1]
    /\ Len(source) = 2 /\ source[1] = ";" /\ source[2] = ";" /\ position = 3

-----------------------------------------------------------------------------
(* C20 *)

\* the step is the single builder call bp(type, x)
BpCallStep ==
    /\ Len(history') = Len(history) + 1
    /\ history'[Len(history')].m \in {"bp", "bp_resolver"}

\* C20: parsing only reads the rule tables. A step of a running, starting,
\* returning or raising parse (with its nud and led dispatch), a bp query
\* and a step of parseList leave the three tables as they are; the tables
\* change in builder calls only; and the builder call bp(type, x) sets the
\* bp entry of that type and nothing else.
C20_TablesFrame ==
    [][/\ (stack # <<>> \/ stack' # <<>>) => UNCHANGED <<_bps, _nuds, _leds>>
       /\ (bpResult' # bpResult \/ resolverCalls' # resolverCalls) =>
            UNCHANGED <<_bps, _nuds, _leds>>
       /\ listRun' # listRun => UNCHANGED <<_bps, _nuds, _leds>>
       /\ history' = history => UNCHANGED <<_bps, _nuds, _leds>>
       /\ BpCallStep =>
            LET c == history'[Len(history')] IN
            /\ UNCHANGED <<_nuds, _leds>>
            /\ DOMAIN _bps' = DOMAIN _bps \cup {c.type}
            /\ _bps'[c.type] = BpOf(c)
            /\ \A t \in DOMAIN _bps : t # c.type => _bps'[t] = _bps[t]]_vars

\* after builder calls that re-registered only the bp of NUM, a parse has
\* raised: NUM has its resolver and still its prefix rule, the operator its
\* first entries
C20_Witness ==
    /\ Ended /\ result.st = "threw"
    /\ Len(history) > Len(TermSession.calls)
    /\ _bps["NUM"].dyn /\ _nuds["NUM"] = Fn("num")
    /\ _bps["a"] = [dyn |-> FALSE, n |-> 1] /\ _leds["a"].h = "binary"

\* a parseList run has finished on a built parser
C20_ListDone ==
    built # <<>> /\ listRun.pc = "done" /\ Len(listRun.items) > 0

-----------------------------------------------------------------------------
(* C21 *)

\* the token t has no binding-power entry and no infix rule
Unknown(t) == ~t.eof /\ t.type \notin DOMAIN _bps /\ t.type \notin DOMAIN _leds

\* C21: an unknown trailing token makes the parse fail. A parse call under
\* the default terminals [0] (its handle untriggered) that holds a prefix
\* value and peeks at a token that is not the end of the input and whose type
\* has neither a bp entry nor a led rule does not return: it consumes that
\* token and raises UnexpectedToken naming it.
C21_UnknownTrailing ==
    [][(/\ LoopAt /\ Top.terminals = <<Num(0)>> /\ ~stopCalled[Top.stop]
        /\ Unknown(PeekedToken)) =>
         /\ position' = position + 1
         /\ ThrewUnexpected(PeekedToken)
         /\ ~Returned(Top)]_vars

\* '1 ,' under the default terminals: the call took the ',' and raised
\* UnexpectedToken naming it
C21_Witness ==
    /\ Ended /\ callOpts = DefaultOpts
    /\ source = <<"NUM", ",">> /\ position = 3
    /\ "," \notin DOMAIN _bps /\ "," \notin DOMAIN _leds
    /\ result = [st |-> "threw", v |-> UnexpectedToken(Token(",", 2))]

-----------------------------------------------------------------------------
(* C22 *)

\* C22: every parse call terminates. Whatever the terminals list and the
\* registered rules, a call that was made returns or raises: the stack of a
\* running call empties.
C22_Terminates == (stack # <<>>) ~> (stack = <<>>)

\* the terminals list of the last top-level call holds an entry that is not
\* a token type
NotTypesOnly ==
    \E i \in DOMAIN optsTerminals(callOpts) : optsTerminals(callOpts)[i][1] # "string"

\* the calls that terminate: those whose terminals list holds an entry that
\* is not a token type, and those on a parser without infix rule for the
\* end-of-input token
C22_TerminatesGuarded ==
    (stack # <<>> /\ (NotTypesOnly \/ NullKey \notin DOMAIN _leds))
       ~> (stack = <<>>)

\* a call under terminals [','] is back at its loop check at the end of the
\* input with the value the end-of-input token's infix handler returned: the
\* state it was in one iteration before
C22_LoopAtEof ==
    /\ LoopAt /\ Len(stack) = 1 /\ closed /\ position > Len(source)
    /\ callOpts = Opts(<<Ty(",")>>, 0)
    /\ Top.left = NumV(<<NullKey, position>>)

-----------------------------------------------------------------------------
(* C23 *)

\* the step consumes t and dispatches it on the nud table, left absent
NudStep(f, t) ==
    /\ position' = IF t.eof THEN position ELSE position + 1
    /\ IF t.type \in DOMAIN _nuds
       THEN /\ Len(stack') = Len(stack) + 1
            /\ stack'[Len(stack')].k = "handler"
            /\ stack'[Len(stack')].fn = _nuds[t.type]
            /\ stack'[Len(stack')].inf.token = t
            /\ stack'[Len(stack')].inf.stop = f.stop
       ELSE ThrewUnexpected(t)

\* C23: a parse call handed a triggered Stop Handle (a call is at its first
\* step with its handle triggered only then) still takes exactly one token
\* and dispatches its nud, raising UnexpectedToken when the type has no
\* prefix rule; the value the nud handler returns becomes its left; and at
\* its loop check the call returns left with the lexer untouched: no token
\* peeked at, none consumed, no led dispatched.
C23_TriggeredHandle ==
    [][/\ (NudAt /\ stopCalled[Top.stop]) => NudStep(Top, PeekedToken)
       /\ (/\ stack # <<>> /\ Top.k = "handler" /\ Len(stack') = Len(stack) - 1
           /\ stack[Len(stack) - 1].k = "parse"
           /\ stopCalled[stack[Len(stack) - 1].stop]) =>
            /\ stack'[Len(stack')].pc = "loop"
            /\ \/ Top.fn.h = "num" /\ stack'[Len(stack')].left = NumV(Top.inf.token.match)
               \/ Top.fn.h = "stop" /\ stack'[Len(stack')].left = Top.inf.left
               \/ Top.fn.h = "unary"
                  /\ stack'[Len(stack')].left = Prefix(Top.fn.op, Top.right)
       /\ (LoopAt /\ stopCalled[Top.stop]) =>
            /\ Returned(Top)
            /\ Len(stack') < Len(stack)
            /\ UNCHANGED <<source, closed, position>>]_vars

\* '; - 1': the first call triggered the kept handle at ';'; the second call
\* took '-', whose unary() handler handed the handle to the parse call of its
\* operand; that call took the 1 and returned it, and the second call
\* returned create('-', 1); the lexer was never asked for a fourth token
C23_Witness ==
    /\ Ended /\ calls = 2 /\ Len(stopCalled) = 1 /\ stopCalled[1]
    /\ source = <<";", "-", "NUM">> /\ position = 4 /\ ~closed
    /\ result = [st |-> "returned", v |-> Prefix("-", NumV(<<"NUM", 3>>))]

\* the second call under the triggered handle raised on a token without
\* prefix rule (the end of the input)
C23_Raised ==
    /\ Ended /\ calls = 2 /\ Len(stopCalled) = 1
    /\ source = <<";">> /\ closed
    /\ result = [st |-> "threw", v |-> UnexpectedToken(Token(NullKey, 2))]

====
